---- MODULE Spec2Model ----
(***************************************************************************)
(* Model of the workflow run-time reporting scripts:                       *)
(*   workflow_rt.py  (processInput -> queryFpr, queryMongoDB, parseJson,   *)
(*                    merge, ganttPlot, generateCSV)                       *)
(*   plot.py         (gantt_plot, add_arrows)                              *)
(*   extract_workflow_ids.py  (extract_workflow_ids, process_json_file),   *)
(*                    with extractWfId of workflow_rt.py                   *)
(* A pandas DataFrame is a sequence of rows; a row's position is its index *)
(* label (1-based here, 0-based in pandas).  A sorted frame is the indexer *)
(* sort_values computes: the sequence of index labels in output order.     *)
(***************************************************************************)
EXTENDS Integers, Sequences, FiniteSets, TLC

VARIABLES pc, error, workflow_ids, fpr, df_sname, data, workflow_metrics,
          config, metrics_sorted, metrics_sorted_run_order, arrows_1,
          arrows_2, charts, csv_file,
          tree, extracted, txt_file,
          csv_written, txt_written

vars == <<pc, error, workflow_ids, fpr, df_sname, data, workflow_metrics,
          config, metrics_sorted, metrics_sorted_run_order, arrows_1,
          arrows_2, charts, csv_file,
          tree, extracted, txt_file,
          csv_written, txt_written>>

\* what extract_workflow_ids.py works on, and the two histories: the row
\* lists handed to every write of each destination, in invocation order
id_list_vars == <<tree, extracted, txt_file, txt_written>>

----------------------------------------------------------------------------
(* Bounds of the model *)

\* longest list of raw records handed to parseJson
MaxRecs == 3

\* most rows of a provenance report
MaxFprRows == 3

\* most rows of a metrics table handed to the plotting functions
MaxRows == 3

\* most rows of a metrics frame handed to add_arrows / addArrows alone
MaxArrowRows == 5

\* most records the metrics store returns to one processInput run
MaxStoreRecs == 2

\* most rows of the provenance report read by one processInput run
MaxStoreFpr == 2

----------------------------------------------------------------------------
(* Values *)

\* dict.get(key, default) found no key 'wallclock_seconds' in the record
NoKey == -1

\* a wallclock_seconds that is present but is no number (JSON null, a string)
NotANumber == -2

\* the reserved name of the auxiliary step
PFO == "provisionFileOut"

RunIds == {"r1", "r2"}

Front(s) == SubSeq(s, 1, Len(s) - 1)

SeqsUpTo(S, n) == UNION {[1..k -> S] : k \in 0..n}

----------------------------------------------------------------------------
(* parseJson: workflow_rt.py 109-153 *)

\* workflow.get('wallclock_seconds', 0)
GetWallclock(w) ==
    IF w.wallclock_seconds = NoKey THEN 0 ELSE w.wallclock_seconds

\* Python's max(a, b): b only when b > a
PyMax(a, b) == IF b > a THEN b ELSE a

\* max(...) compares the running maximum with the record's value: a value
\* that is no number makes the comparison raise TypeError
parseJsonRaises(records) ==
    \E i \in DOMAIN records :
        /\ records[i].workflow_name = PFO
        /\ GetWallclock(records[i]) = NotANumber

\* the keys of grouped_by_run_id, in insertion order (first appearance)
RECURSIVE GroupKeys(_)
GroupKeys(records) ==
    IF records = <<>> THEN <<>>
    ELSE LET prev == GroupKeys(Front(records))
             rid  == records[Len(records)].workflow_run_id
         IN  IF \E i \in DOMAIN prev : prev[i] = rid
             THEN prev ELSE Append(prev, rid)

\* mutant of GroupMax: the value is overwritten, not maximised
RECURSIVE GroupMaxOverwrite(_, _)
GroupMaxOverwrite(records, rid) ==
    IF records = <<>> THEN 0
    ELSE LET prev == GroupMaxOverwrite(Front(records), rid)
             w    == records[Len(records)]
         IN  IF w.workflow_run_id = rid /\ w.workflow_name = PFO
             THEN GetWallclock(w)
             ELSE prev

\* grouped_by_run_id[rid]['max_provisionFileOut'] after the first loop
RECURSIVE GroupMax(_, _)
GroupMax(records, rid) ==
    IF records = <<>> THEN 0
    ELSE LET prev == GroupMax(Front(records), rid)
             w    == records[Len(records)]
         IN  IF w.workflow_run_id = rid /\ w.workflow_name = PFO
             THEN PyMax(prev, GetWallclock(w))
             ELSE prev

\* grouped_by_run_id[rid]['workflows'] after the first loop
GroupWorkflows(records, rid) ==
    SelectSeq(records, LAMBDA w : w.workflow_run_id = rid /\ w.workflow_name # PFO)

\* the row built for one member of a group
MetricsRow(wf, rid, maxPfo) ==
    [workflow_name |-> wf.workflow_name,
     start_time |-> wf.start_time,
     end_time |-> wf.end_time,
     wallclock_seconds |-> wf.wallclock_seconds,
     workflow_run_id |-> rid,
     max_provisionFileOut_wallclock_seconds |-> maxPfo]

\* mutant of GroupRows: the group's rows come out newest first
GroupRowsReversed(records, rid) ==
    LET wfs == GroupWorkflows(records, rid)
    IN  [k \in DOMAIN wfs |->
            MetricsRow(wfs[Len(wfs) + 1 - k], rid, GroupMax(records, rid))]

\* the rows the inner loop appends for one group
GroupRows(records, rid) ==
    LET wfs == GroupWorkflows(records, rid)
    IN  [k \in DOMAIN wfs |-> MetricsRow(wfs[k], rid, GroupMax(records, rid))]

\* mutant of ConcatGroups: a row is built as soon as its record is read,
\* with the maximum of the provisionFileOut records read so far
RECURSIVE ConcatGroupsOnePass(_, _)
ConcatGroupsOnePass(records, keys) ==
    IF records = <<>> THEN <<>>
    ELSE LET w == records[Len(records)]
         IN  ConcatGroupsOnePass(Front(records), keys)
             \o (IF w.workflow_name = PFO THEN <<>>
                 ELSE << MetricsRow(w, w.workflow_run_id,
                                    GroupMax(records, w.workflow_run_id)) >>)

\* the second loop: every group in insertion order
RECURSIVE ConcatGroups(_, _)
ConcatGroups(records, keys) ==
    IF keys = <<>> THEN <<>>
    ELSE ConcatGroups(records, Front(keys)) \o GroupRows(records, keys[Len(keys)])

\* mutant of parseJson: one row per run id, the last of its records winning
RECURSIVE LastWinsGroups(_, _)
LastWinsGroups(records, keys) ==
    IF keys = <<>> THEN <<>>
    ELSE LET rows == GroupRows(records, keys[Len(keys)])
         IN  LastWinsGroups(records, Front(keys))
             \o (IF rows = <<>> THEN <<>> ELSE << rows[Len(rows)] >>)

parseJsonLastWins(records, table) ==
    table \o LastWinsGroups(records, GroupKeys(records))

\* the returned table (when nothing raised)
parseJson(records, table) == table \o ConcatGroups(records, GroupKeys(records))

----------------------------------------------------------------------------
(* queryFpr: workflow_rt.py 42-69 *)

\* a missing sample_name after the left merge (pandas NaN in an object column)
NaN == "NaN"

\* DataFrame.drop_duplicates(): the first of every group of identical rows
RECURSIVE drop_duplicates(_)
drop_duplicates(rows) ==
    IF rows = <<>> THEN <<>>
    ELSE LET prev == drop_duplicates(Front(rows))
             r    == rows[Len(rows)]
         IN  IF \E i \in DOMAIN prev : prev[i] = r THEN prev ELSE Append(prev, r)

\* the list sname: one dict for every report row whose SWID is requested
FprMatches(report, ids) ==
    LET hit == SelectSeq(report, LAMBDA row : row.swid \in ids)
    IN  [k \in DOMAIN hit |->
            [sample_name |-> hit[k].root_sample_name, workflow_run_id |-> hit[k].swid]]

\* mutant of queryFpr: the matches are returned without drop_duplicates()
queryFprKeepAll(report, ids) == FprMatches(report, ids)

\* the frame returned for a readable report
queryFpr(report, ids) == drop_duplicates(FprMatches(report, ids))

----------------------------------------------------------------------------
(* pd.merge(..., how='left'): workflow_rt.py 431 *)

WithSample(row, sample) ==
    [workflow_name |-> row.workflow_name,
     start_time |-> row.start_time,
     end_time |-> row.end_time,
     wallclock_seconds |-> row.wallclock_seconds,
     workflow_run_id |-> row.workflow_run_id,
     max_provisionFileOut_wallclock_seconds |-> row.max_provisionFileOut_wallclock_seconds,
     sample_name |-> sample]

\* the rows one left row yields: one per matching right row, in the right
\* frame's order, or one with a missing sample_name when nothing matches
MergeOne(row, right) ==
    LET m == SelectSeq(right, LAMBDA r : r.workflow_run_id = row.workflow_run_id)
    IN  IF m = <<>> THEN << WithSample(row, NaN) >>
        ELSE [k \in DOMAIN m |-> WithSample(row, m[k].sample_name)]

RECURSIVE merge_left(_, _)
merge_left(left, right) ==
    IF left = <<>> THEN <<>>
    ELSE merge_left(Front(left), right) \o MergeOne(left[Len(left)], right)

----------------------------------------------------------------------------
(* Timestamps and sorting *)

\* a missing value in a numeric or datetime column (NaT, NaN)
Missing == -1

\* the timestamps pd.to_datetime can parse, in chronological order
ParsableTimes == <<"2024-01-01", "2024-01-02", "2024-01-03">>

Parsable(s) == \E i \in DOMAIN ParsableTimes : ParsableTimes[i] = s

\* pd.to_datetime(..., errors='coerce') on one value: workflow_rt.py 296-297
to_datetime_coerce(s) ==
    IF Parsable(s) THEN CHOOSE i \in DOMAIN ParsableTimes : ParsableTimes[i] = s
    ELSE Missing

\* the table with both time columns converted
ConvertTimes(table) ==
    [i \in DOMAIN table |->
        [table[i] EXCEPT !.start_time = to_datetime_coerce(table[i].start_time),
                         !.end_time = to_datetime_coerce(table[i].end_time)]]

\* pd.to_datetime(...) without errors='coerce' raises on an unparsable
\* value: plot.py 118-119
to_datetime_raises(table) ==
    \E i \in DOMAIN table :
        ~Parsable(table[i].start_time) \/ ~Parsable(table[i].end_time)

\* the orders of the labels in S in which the keys never decrease
RECURSIVE KeyOrders(_, _)
KeyOrders(S, keys) ==
    IF S = {} THEN { <<>> }
    ELSE UNION { {Append(p, x) : p \in KeyOrders(S \ {x}, keys)} :
                 x \in {y \in S : \A z \in S : keys[z] <= keys[y]} }

\* sort_values(by=...) with the default kind='quicksort' and
\* na_position='last': the missing keys go last in their input order; the
\* others are put in key order by a sort that is not stable, so rows with
\* equal keys can come out in any order.  The set of possible indexers.
sort_values(keys) ==
    LET ident   == [i \in DOMAIN keys |-> i]
        nan_idx == SelectSeq(ident, LAMBDA i : keys[i] = Missing)
        non_nan == {i \in DOMAIN keys : keys[i] # Missing}
    IN  {p \o nan_idx : p \in KeyOrders(non_nan, keys)}

\* order_map = {workflow: idx for idx, workflow in enumerate(run_order)}
\* applied with Series.map: the (0-based) index of the last occurrence of the
\* name, a missing value for a name that is no key
order_map(run_order, name) ==
    LET at == {i \in DOMAIN run_order : run_order[i] = name}
    IN  IF at = {} THEN Missing
        ELSE (CHOOSE i \in at : \A j \in at : j <= i) - 1

\* the column workflow_name + '-' + workflow_run_id of one row
workflow_name_id(row) == <<row.workflow_name, row.workflow_run_id>>

----------------------------------------------------------------------------
(* add_arrows: plot.py 29-57;  addArrows: workflow_rt.py 174-200 *)
(* frame is the indexer of metrics_df into table; dependencies is the dict *)
(* as a sequence of <<workflow, dependent_workflows>> items.  An arrow     *)
(* carries the labels of the two rows it was built from (from, to).        *)

\* metrics_df[metrics_df['workflow_name'] == name], as a sequence of labels
RowsNamed(frame, table, name) ==
    SelectSeq(frame, LAMBDA i : table[i].workflow_name = name)

Arrow(table, u, d) ==
    [from |-> u, to |-> d,
     x |-> <<table[u].end_time, table[d].start_time>>,
     y |-> <<workflow_name_id(table[u]), workflow_name_id(table[d])>>]

\* mutant of CrossArrows: the k-th upstream row with the k-th downstream row
CrossArrowsPaired(table, ups, downs) ==
    [k \in (DOMAIN ups) \cap (DOMAIN downs) |-> Arrow(table, ups[k], downs[k])]

\* the two inner loops: every upstream row with every downstream row
RECURSIVE CrossArrows(_, _, _)
CrossArrows(table, ups, downs) ==
    IF ups = <<>> THEN <<>>
    ELSE CrossArrows(table, Front(ups), downs)
         \o [k \in DOMAIN downs |-> Arrow(table, ups[Len(ups)], downs[k])]

\* the loop over one item's dependent_workflows
RECURSIVE DepArrows(_, _, _, _)
DepArrows(frame, table, workflow, deps) ==
    IF deps = <<>> THEN <<>>
    ELSE DepArrows(frame, table, workflow, Front(deps))
         \o CrossArrows(table, RowsNamed(frame, table, workflow),
                        RowsNamed(frame, table, deps[Len(deps)]))

RECURSIVE add_arrows(_, _, _)
add_arrows(frame, table, dependencies) ==
    IF dependencies = <<>> THEN <<>>
    ELSE add_arrows(frame, table, Front(dependencies))
         \o DepArrows(frame, table, dependencies[Len(dependencies)][1],
                      dependencies[Len(dependencies)][2])

\* the same loops in workflow_rt.py
RECURSIVE addArrows(_, _, _)
addArrows(frame, table, dependencies) ==
    IF dependencies = <<>> THEN <<>>
    ELSE addArrows(frame, table, Front(dependencies))
         \o DepArrows(frame, table, dependencies[Len(dependencies)][1],
                      dependencies[Len(dependencies)][2])

----------------------------------------------------------------------------
(* Inputs *)

\* the raw records parseJson is applied to
RawRecords ==
    [workflow_run_id : RunIds, workflow_name : {"align", "call"},
     start_time : {"2024-01-01", "2024-01-02"}, end_time : {"2024-01-03"},
     wallclock_seconds : {5}]
    \cup
    [workflow_run_id : RunIds, workflow_name : {PFO},
     start_time : {"2024-01-01"}, end_time : {"2024-01-02"},
     wallclock_seconds : {0, 1, 2, NoKey, NotANumber}]

\* the rows of a provenance report: 'Root Sample Name', 'Workflow Run SWID'
FprRows == [root_sample_name : {"s1", "s2"}, swid : {"r1", "r2", "r3"}]

\* the dependency configurations: workflow_run_order and dependencies (the
\* dict as its items, in order); acyclic, cyclic and self-referential
Configs ==
    { [supplied |-> TRUE, workflow_run_order |-> <<"align", "call">>,
       dependencies |-> << <<"align", <<"call">> >> >>],
      [supplied |-> TRUE, workflow_run_order |-> <<"call", "align">>,
       dependencies |-> << <<"align", <<"call">> >>, <<"call", <<"align">> >> >>],
      [supplied |-> TRUE, workflow_run_order |-> <<"call">>,
       dependencies |-> << <<"call", <<"call", "align">> >> >>] }

\* config_file=None
NoConfig == [supplied |-> FALSE, workflow_run_order |-> <<>>, dependencies |-> <<>>]

\* the rows of a metrics table handed to ganttPlot / gantt_plot
PlotRows ==
    { [workflow_name |-> n, start_time |-> t[1], end_time |-> t[2],
       wallclock_seconds |-> 5, workflow_run_id |-> "r1",
       max_provisionFileOut_wallclock_seconds |-> 0, sample_name |-> "s1"] :
      n \in {"align", "call", "qc"},
      t \in { <<"2024-01-01", "2024-01-02">>, <<"2024-01-02", "2024-01-03">>,
              <<"garbage", "2024-01-03">> } }

\* the rows of a converted, sorted frame handed to add_arrows / addArrows
ArrowRows ==
    { [workflow_name |-> r[1], start_time |-> r[2], end_time |-> r[3],
       wallclock_seconds |-> 5, workflow_run_id |-> r[4],
       max_provisionFileOut_wallclock_seconds |-> 0, sample_name |-> "s1"] :
      r \in { <<"align", 1, 2, "r1">>, <<"call", 2, 3, "r1">>,
              <<"call", 3, Missing, "r2">>, <<"qc", 1, 2, "r1">> } }

\* what the metrics store can hold for one processInput run
StoreRecords ==
    { [workflow_run_id |-> r[1], workflow_name |-> r[2], start_time |-> r[3],
       end_time |-> "2024-01-03", wallclock_seconds |-> r[4]] :
      r \in { <<"r1", "align", "2024-01-01", 5>>, <<"r1", "call", "garbage", 7>>,
              <<"r1", PFO, "2024-01-01", 2>>, <<"r2", "call", "2024-01-02", 5>> } }

StoreFprRows ==
    { [root_sample_name |-> "s1", swid |-> "r1"],
      [root_sample_name |-> "s2", swid |-> "r1"],
      [root_sample_name |-> "s2", swid |-> "r2"],
      [root_sample_name |-> "s1", swid |-> "r3"] }

NoFrame == [none |-> TRUE, rows |-> <<>>]
NoFile == [exists |-> FALSE, rows |-> <<>>]

\* the id list of extract_workflow_ids.py before it is written
NoIdList == [exists |-> FALSE, lines |-> <<>>]

\* everything but the inputs, before anything ran
Blank ==
    /\ error = "none"
    /\ df_sname = NoFrame
    /\ metrics_sorted = <<>>
    /\ metrics_sorted_run_order = <<>>
    /\ arrows_1 = <<>>
    /\ arrows_2 = <<>>
    /\ charts = <<>>
    /\ csv_file = NoFile
    /\ extracted = <<>>
    /\ txt_file = NoIdList
    /\ csv_written = <<>>
    /\ txt_written = <<>>

----------------------------------------------------------------------------
(* extract_workflow_ids.py, and extractWfId: workflow_rt.py 15-38 *)

\* widest dict (items) and longest list of a document
MaxWidth == 2

\* A document read by json.load is a tree of nodes: a scalar, a dict (val:
\* its items in insertion order, the keys distinct) or a list (val: its
\* elements in order).
IdKey == "workflow_id"

Keys == {IdKey, "steps"}

Scalars == {[kind |-> "scalar", val |-> s] : s \in {"A1", "A2"}}

DistinctKeys(items) ==
    \A i, j \in DOMAIN items : items[i].key = items[j].key => i = j

Dicts(S, w) ==
    {[kind |-> "dict", val |-> items] :
        items \in {s \in SeqsUpTo([key : Keys, value : S], w) : DistinctKeys(s)}}

Lists(S, w) == {[kind |-> "list", val |-> s] : s \in SeqsUpTo(S, w)}

Nodes(S, w) == Scalars \cup Dicts(S, w) \cup Lists(S, w)

\* every document of depth two and width w, and those of depth three whose
\* root holds one child
Trees(w) == Nodes(Nodes(Nodes(Scalars, w), w), 1)

\* the variable tree while no document is at hand (json null)
NoDocument == [kind |-> "scalar", val |-> "null"]

\* list.extend, once for every part in order
RECURSIVE ExtendAll(_)
ExtendAll(parts) ==
    IF parts = <<>> THEN <<>>
    ELSE ExtendAll(Front(parts)) \o parts[Len(parts)]

\* extract_workflow_ids: extract_workflow_ids.py 6-20
RECURSIVE extract_workflow_ids(_)
extract_workflow_ids(node) ==
    IF node.kind = "dict"
    THEN ExtendAll([i \in DOMAIN node.val |->
                      IF node.val[i].key = IdKey
                      THEN << node.val[i].value >>
                      ELSE extract_workflow_ids(node.val[i].value)])
    ELSE IF node.kind = "list"
    THEN ExtendAll([i \in DOMAIN node.val |-> extract_workflow_ids(node.val[i])])
    ELSE <<>>

\* hash(value) works: a dict or a list has no hash
Hashable(v) == v.kind = "scalar"

\* extractWfId: workflow_rt.py 15-38.  Every level ends with
\* list(set(workflow_ids)): it raises TypeError when a collected value is
\* not hashable, and otherwise keeps each value once, in no defined order,
\* so a level's result is a set (ids) unless it raised (raises).
RECURSIVE extractWfId(_)
extractWfId(node) ==
    LET matched == IF node.kind = "dict"
                   THEN {node.val[i].value :
                            i \in {j \in DOMAIN node.val : node.val[j].key = IdKey}}
                   ELSE {}
        scanned == IF node.kind = "dict"
                   THEN {node.val[i].value :
                            i \in {j \in DOMAIN node.val : node.val[j].key # IdKey}}
                   ELSE IF node.kind = "list"
                   THEN {node.val[i] : i \in DOMAIN node.val}
                   ELSE {}
        inner   == {extractWfId(child) : child \in scanned}
        raises  == \/ \E r \in inner : r.raises
                   \/ \E v \in matched : ~Hashable(v)
    IN  [raises |-> raises,
         ids |-> IF raises THEN {} ELSE matched \cup UNION {r.ids : r \in inner}]

\* list(a set): its elements once each, in any order
ListsOf(S) ==
    {s \in [1..Cardinality(S) -> S] : \A i, j \in DOMAIN s : s[i] = s[j] => i = j}

\* the text of one JSON value inside str() of a dict or a list
RECURSIVE Join(_)
Join(texts) ==
    IF texts = <<>> THEN ""
    ELSE IF Len(texts) = 1 THEN texts[1]
    ELSE Join(Front(texts)) \o ", " \o texts[Len(texts)]

RECURSIVE Repr(_)
Repr(v) ==
    IF v.kind = "scalar" THEN "'" \o v.val \o "'"
    ELSE IF v.kind = "list"
    THEN "[" \o Join([i \in DOMAIN v.val |-> Repr(v.val[i])]) \o "]"
    ELSE "{" \o Join([i \in DOMAIN v.val |->
                        "'" \o v.val[i].key \o "': " \o Repr(v.val[i].value)]) \o "}"

\* str(workflow_id): a string is its own text
Str(v) == IF v.kind = "scalar" THEN v.val ELSE Repr(v)

\* the first line of the id list
Header == "workflow_run_id"

\* process_json_file: extract_workflow_ids.py 22-55, on a JSON file that
\* holds the document tree (loaded) or that is missing or no JSON, and a
\* txt_file that can be opened for appending (writable) or not
process_json_file ==
    /\ pc = "json"
    /\ \E loaded, writable \in BOOLEAN :
          LET workflow_id_list == extract_workflow_ids(tree)
              lines == [i \in DOMAIN workflow_id_list |-> Str(workflow_id_list[i])]
          IN  IF ~loaded
              THEN \* 24-34: reported, nothing extracted
                   UNCHANGED <<extracted, txt_file, txt_written>>
              ELSE /\ extracted' = workflow_id_list
                   /\ IF workflow_id_list = <<>> \/ ~writable
                      THEN \* 40-42: "No workflow IDs found."; 54-55: reported
                           UNCHANGED <<txt_file, txt_written>>
                      ELSE /\ txt_file' =
                                [exists |-> TRUE,
                                 lines |-> IF txt_file.exists
                                           THEN txt_file.lines \o lines
                                           ELSE << Header >> \o lines]
                           /\ txt_written' = Append(txt_written, lines)
    /\ pc' = "done"
    /\ UNCHANGED <<error, workflow_ids, fpr, df_sname, data, workflow_metrics,
                   config, metrics_sorted, metrics_sorted_run_order, arrows_1,
                   arrows_2, charts, csv_file, tree, csv_written>>

\* extract_workflow_ids applied to a document on its own
Call_extract_workflow_ids ==
    /\ pc = "json"
    /\ extracted' = extract_workflow_ids(tree)
    /\ pc' = "extract_workflow_ids_done"
    /\ UNCHANGED <<error, workflow_ids, fpr, df_sname, data, workflow_metrics,
                   config, metrics_sorted, metrics_sorted_run_order, arrows_1,
                   arrows_2, charts, csv_file, tree, txt_file, csv_written,
                   txt_written>>

\* extractWfId applied to a document on its own
Call_extractWfId ==
    /\ pc = "json"
    /\ IF extractWfId(tree).raises
       THEN /\ error' = "TypeError"
            /\ pc' = "crashed"
            /\ UNCHANGED extracted
       ELSE /\ extracted' \in ListsOf(extractWfId(tree).ids)
            /\ pc' = "extractWfId_done"
            /\ UNCHANGED error
    /\ UNCHANGED <<workflow_ids, fpr, df_sname, data, workflow_metrics,
                   config, metrics_sorted, metrics_sorted_run_order, arrows_1,
                   arrows_2, charts, csv_file, tree, txt_file, csv_written,
                   txt_written>>

----------------------------------------------------------------------------
(* processInput: workflow_rt.py 373-433, one action per call it makes *)

\* 381-418: the identifiers read from the input file; none ends the run
ReadInput ==
    /\ pc = "start"
    /\ \E ids \in SUBSET RunIds :
          /\ workflow_ids' = ids
          /\ pc' = IF ids = {} THEN "done" ELSE "fpr"
    /\ UNCHANGED <<error, fpr, df_sname, data, workflow_metrics, config,
                   metrics_sorted, metrics_sorted_run_order, arrows_1, arrows_2,
                   charts, csv_file>>
    /\ UNCHANGED <<id_list_vars, csv_written>>

\* 420-421 and queryFpr 42-69: None when reading the report raised
QueryFpr ==
    /\ pc = "fpr"
    /\ df_sname' = IF fpr.readable
                   THEN [none |-> FALSE, rows |-> queryFpr(fpr.rows, workflow_ids)]
                   ELSE NoFrame
    /\ pc' = "mongo"
    /\ UNCHANGED <<error, workflow_ids, fpr, data, workflow_metrics, config,
                   metrics_sorted, metrics_sorted_run_order, arrows_1, arrows_2,
                   charts, csv_file>>
    /\ UNCHANGED <<id_list_vars, csv_written>>

\* 424 and queryMongoDB 72-105: the store answers with the records of the
\* requested run ids
QueryMongoDB ==
    /\ pc = "mongo"
    /\ \E d \in SeqsUpTo(StoreRecords, MaxStoreRecs) :
          /\ \A i \in DOMAIN d : d[i].workflow_run_id \in workflow_ids
          /\ data' = d
    /\ pc' = "parse"
    /\ UNCHANGED <<error, workflow_ids, fpr, df_sname, workflow_metrics, config,
                   metrics_sorted, metrics_sorted_run_order, arrows_1, arrows_2,
                   charts, csv_file>>
    /\ UNCHANGED <<id_list_vars, csv_written>>

\* queryMongoDB 99-103: both handlers print workflow_id, a name that is not
\* defined, so a failed export ends the run with NameError
QueryMongoDBFails ==
    /\ pc = "mongo"
    /\ error' = "NameError"
    /\ pc' = "crashed"
    /\ UNCHANGED <<workflow_ids, fpr, df_sname, data, workflow_metrics, config,
                   metrics_sorted, metrics_sorted_run_order, arrows_1, arrows_2,
                   charts, csv_file>>
    /\ UNCHANGED <<id_list_vars, csv_written>>

\* 426-428 and parseJson 109-153
ParseJson ==
    /\ pc = "parse"
    /\ IF parseJsonRaises(data)
       THEN /\ error' = "TypeError"
            /\ pc' = "crashed"
            /\ UNCHANGED workflow_metrics
       ELSE /\ workflow_metrics' = parseJson(data, <<>>)
            /\ pc' = "merge"
            /\ UNCHANGED error
    /\ UNCHANGED <<workflow_ids, fpr, df_sname, data, config, metrics_sorted,
                   metrics_sorted_run_order, arrows_1, arrows_2, charts, csv_file>>
    /\ UNCHANGED <<id_list_vars, csv_written>>

\* 430-431: without a sample frame nothing more is done
MergeSamples ==
    /\ pc = "merge"
    /\ IF df_sname.none
       THEN /\ pc' = "done"
            /\ UNCHANGED workflow_metrics
       ELSE /\ workflow_metrics' = merge_left(workflow_metrics, df_sname.rows)
            /\ pc' = "plot"
    /\ UNCHANGED <<error, workflow_ids, fpr, df_sname, data, config, metrics_sorted,
                   metrics_sorted_run_order, arrows_1, arrows_2, charts, csv_file>>
    /\ UNCHANGED <<id_list_vars, csv_written>>

\* Series.unique(): the distinct values in order of first appearance
RECURSIVE unique(_)
unique(column) ==
    IF column = <<>> THEN <<>>
    ELSE LET prev == unique(Front(column))
             v    == column[Len(column)]
         IN  IF \E i \in DOMAIN prev : prev[i] = v THEN prev ELSE Append(prev, v)

SampleColumn(table) == [i \in DOMAIN table |-> table[i].sample_name]

\* Series.nunique(): the distinct values that are not missing
nunique(column) == Cardinality({column[i] : i \in DOMAIN column} \ {NaN})

\* 336-345: one chart per value of unique(), each of the rows whose
\* sample_name == sample; a missing value equals nothing, itself included
SampleCharts(frame, table) ==
    LET samples == unique(SampleColumn(table))
    IN  [k \in DOMAIN samples |->
            [sample |-> samples[k], second |-> FALSE,
             rows |-> SelectSeq(frame, LAMBDA i : /\ samples[k] # NaN
                                                  /\ table[i].sample_name = samples[k])]]

\* ganttPlot: workflow_rt.py 283-356 (called at 432)
ganttPlot ==
    /\ pc = "plot"
    /\ workflow_metrics' = ConvertTimes(workflow_metrics)
    /\ metrics_sorted' \in
          sort_values([i \in DOMAIN workflow_metrics |->
                          to_datetime_coerce(workflow_metrics[i].start_time)])
    /\ IF config.supplied
       THEN \* 312: load_config is not defined (the function is loadConfig)
            /\ error' = "NameError"
            /\ pc' = "crashed"
            /\ UNCHANGED charts
       ELSE /\ charts' =
                 IF nunique(SampleColumn(workflow_metrics)) = 1
                 THEN << [sample |-> workflow_metrics[1].sample_name,
                          second |-> FALSE, rows |-> metrics_sorted'] >>
                 ELSE SampleCharts(metrics_sorted', workflow_metrics)
            /\ pc' = "csv"
            /\ UNCHANGED error
    /\ UNCHANGED <<workflow_ids, fpr, df_sname, data, config,
                   metrics_sorted_run_order, arrows_1, arrows_2, csv_file>>
    /\ UNCHANGED <<id_list_vars, csv_written>>

\* mutant of generateCSV: mode='a', the rows are added to those in the file
generateCSVAppend ==
    /\ pc = "csv"
    /\ csv_file' = [exists |-> TRUE, rows |-> csv_file.rows \o workflow_metrics]
    /\ pc' = "done"
    /\ csv_written' = Append(csv_written, workflow_metrics)
    /\ UNCHANGED <<error, workflow_ids, fpr, df_sname, data, workflow_metrics,
                   config, metrics_sorted, metrics_sorted_run_order, arrows_1,
                   arrows_2, charts, id_list_vars>>

\* generateCSV: workflow_rt.py 360-369 (called at 433): mode='w'
generateCSV ==
    /\ pc = "csv"
    /\ csv_file' = [exists |-> TRUE, rows |-> workflow_metrics]
    /\ pc' = "done"
    /\ UNCHANGED <<error, workflow_ids, fpr, df_sname, data, workflow_metrics,
                   config, metrics_sorted, metrics_sorted_run_order, arrows_1,
                   arrows_2, charts>>
    /\ csv_written' = Append(csv_written, workflow_metrics)
    /\ UNCHANGED id_list_vars

----------------------------------------------------------------------------
(* gantt_plot: plot.py 99-196, on the table read from the CSV file *)

\* the column run_order_y of metrics_sorted, in metrics_sorted's order
RunOrderKeys(frame, table, run_order) ==
    [k \in DOMAIN frame |-> order_map(run_order, table[frame[k]].workflow_name)]

\* metrics_sorted.sort_values(by=['run_order_y']): plot.py 162-164,
\* workflow_rt.py 314-316
RunOrderFrames(frame, table, run_order) ==
    {[k \in DOMAIN frame |-> frame[p[k]]] :
        p \in sort_values(RunOrderKeys(frame, table, run_order))}

gantt_plot ==
    /\ pc = "plot"
    /\ IF to_datetime_raises(workflow_metrics)
       THEN /\ error' = "ValueError"
            /\ pc' = "crashed"
            /\ UNCHANGED <<workflow_metrics, metrics_sorted,
                           metrics_sorted_run_order, arrows_1, arrows_2, charts>>
       ELSE /\ workflow_metrics' = ConvertTimes(workflow_metrics)
            /\ metrics_sorted' \in
                  sort_values([i \in DOMAIN workflow_metrics |->
                                  to_datetime_coerce(workflow_metrics[i].start_time)])
            /\ IF config.supplied
               THEN /\ arrows_1' = add_arrows(metrics_sorted', workflow_metrics',
                                              config.dependencies)
                    /\ metrics_sorted_run_order' \in
                          RunOrderFrames(metrics_sorted', workflow_metrics',
                                         config.workflow_run_order)
                    /\ arrows_2' = add_arrows(metrics_sorted_run_order',
                                              workflow_metrics', config.dependencies)
                    /\ charts' = << [sample |-> "all", second |-> FALSE,
                                     rows |-> metrics_sorted'],
                                    [sample |-> "all", second |-> TRUE,
                                     rows |-> metrics_sorted_run_order'] >>
               ELSE /\ charts' = << [sample |-> "all", second |-> FALSE,
                                     rows |-> metrics_sorted'] >>
                    /\ UNCHANGED <<metrics_sorted_run_order, arrows_1, arrows_2>>
            /\ pc' = "done"
            /\ UNCHANGED error
    /\ UNCHANGED <<workflow_ids, fpr, df_sname, data, config, csv_file>>
    /\ UNCHANGED <<id_list_vars, csv_written>>

----------------------------------------------------------------------------
(* add_arrows / addArrows applied to a frame on their own *)

Call_add_arrows ==
    /\ pc = "arrows"
    /\ arrows_1' = add_arrows(metrics_sorted, workflow_metrics, config.dependencies)
    /\ pc' = "add_arrows_done"
    /\ UNCHANGED <<error, workflow_ids, fpr, df_sname, data, workflow_metrics,
                   config, metrics_sorted, metrics_sorted_run_order, arrows_2,
                   charts, csv_file>>
    /\ UNCHANGED <<id_list_vars, csv_written>>

Call_addArrows ==
    /\ pc = "arrows"
    /\ arrows_1' = addArrows(metrics_sorted, workflow_metrics, config.dependencies)
    /\ pc' = "addArrows_done"
    /\ UNCHANGED <<error, workflow_ids, fpr, df_sname, data, workflow_metrics,
                   config, metrics_sorted, metrics_sorted_run_order, arrows_2,
                   charts, csv_file>>
    /\ UNCHANGED <<id_list_vars, csv_written>>

----------------------------------------------------------------------------
(* Specifications *)

\* processInput from its start, with the provenance report and the
\* configuration it is given
Init ==
    /\ pc = "start"
    /\ workflow_ids = {}
    /\ fpr \in {[readable |-> FALSE, rows |-> <<>>]}
               \cup {[readable |-> TRUE, rows |-> r] :
                       r \in SeqsUpTo(StoreFprRows, MaxStoreFpr)}
    /\ data = <<>>
    /\ workflow_metrics = <<>>
    /\ config \in {NoConfig} \cup {c \in Configs : c.workflow_run_order = <<"align", "call">>}
    /\ tree = NoDocument
    /\ Blank

Next ==
    \/ ReadInput
    \/ QueryFpr
    \/ QueryMongoDB
    \/ QueryMongoDBFails
    \/ ParseJson
    \/ MergeSamples
    \/ ganttPlot
    \/ generateCSV

Spec == Init /\ [][Next]_vars

\* parseJson applied to every list of raw records
InitParse ==
    /\ pc = "parse"
    /\ workflow_ids = RunIds
    /\ fpr = [readable |-> TRUE, rows |-> <<>>]
    /\ data \in SeqsUpTo(RawRecords, MaxRecs)
    /\ workflow_metrics = <<>>
    /\ config = NoConfig
    /\ tree = NoDocument
    /\ Blank

SpecParse == InitParse /\ [][ParseJson]_vars

\* queryFpr applied to every report and every set of requested ids
InitFpr ==
    /\ pc = "fpr"
    /\ workflow_ids \in SUBSET {"r1", "r2", "r4"}
    /\ fpr \in {[readable |-> FALSE, rows |-> <<>>]}
               \cup {[readable |-> TRUE, rows |-> r] :
                       r \in SeqsUpTo(FprRows, MaxFprRows)}
    /\ data = <<>>
    /\ workflow_metrics = <<>>
    /\ config = NoConfig
    /\ tree = NoDocument
    /\ Blank

SpecFpr == InitFpr /\ [][QueryFpr]_vars

\* the two plotting entry points applied to every metrics table
InitGantt ==
    /\ pc = "plot"
    /\ workflow_ids = {}
    /\ fpr = [readable |-> TRUE, rows |-> <<>>]
    /\ data = <<>>
    /\ workflow_metrics \in SeqsUpTo(PlotRows, MaxRows)
    /\ config \in {NoConfig} \cup Configs
    /\ tree = NoDocument
    /\ Blank

NextGantt == ganttPlot \/ gantt_plot

SpecGantt == InitGantt /\ [][NextGantt]_vars

\* add_arrows / addArrows applied to every frame (its rows in the order of
\* the table, the table in every order) and every configuration
InitArrows ==
    /\ pc = "arrows"
    /\ workflow_ids = {}
    /\ fpr = [readable |-> TRUE, rows |-> <<>>]
    /\ data = <<>>
    /\ workflow_metrics \in SeqsUpTo(ArrowRows, MaxArrowRows)
    /\ config \in Configs
    /\ error = "none"
    /\ df_sname = NoFrame
    /\ metrics_sorted = [i \in DOMAIN workflow_metrics |-> i]
    /\ metrics_sorted_run_order = <<>>
    /\ arrows_1 = <<>>
    /\ arrows_2 = <<>>
    /\ charts = <<>>
    /\ csv_file = NoFile
    /\ tree = NoDocument
    /\ extracted = <<>>
    /\ txt_file = NoIdList
    /\ csv_written = <<>>
    /\ txt_written = <<>>

NextArrows == Call_add_arrows \/ Call_addArrows

SpecArrows == InitArrows /\ [][NextArrows]_vars

\* most writing invocations in a row against the same two destinations
MaxInvocations == 4

\* the document [{"workflow_id": ids[1]}, {"workflow_id": ids[2]}, ...]
IdListDocument(ids) ==
    [kind |-> "list",
     val |-> [i \in DOMAIN ids |->
                [kind |-> "dict",
                 val |-> << [key |-> IdKey,
                             value |-> [kind |-> "scalar", val |-> ids[i]]] >>]]]

\* the documents handed to successive runs of extract_workflow_ids.py
PersistDocuments ==
    {IdListDocument(ids) : ids \in {<<>>, <<"A1">>, <<"A2", "A1">>}}

\* the merged, converted tables that successive runs of processInput hand
\* to generateCSV
PersistTables ==
    LET row(n) == [workflow_name |-> n, start_time |-> "2024-01-01",
                   end_time |-> "2024-01-02", wallclock_seconds |-> 5,
                   workflow_run_id |-> "r1",
                   max_provisionFileOut_wallclock_seconds |-> 0,
                   sample_name |-> "s1"]
    IN  {ConvertTimes(t) : t \in {<<>>, <<row("align")>>,
                                  <<row("align"), row("call")>>}}

\* extract_workflow_ids.py 57-62: the script is run on one more JSON file;
\* the files written by earlier runs stay as they are
StartIdListRun ==
    /\ pc \in {"idle", "done"}
    /\ Len(csv_written) + Len(txt_written) < MaxInvocations
    /\ tree' \in PersistDocuments
    /\ pc' = "json"
    /\ UNCHANGED <<error, workflow_ids, fpr, df_sname, data, workflow_metrics,
                   config, metrics_sorted, metrics_sorted_run_order, arrows_1,
                   arrows_2, charts, csv_file, extracted, txt_file, csv_written,
                   txt_written>>

\* workflow_rt.py 436-473, 373-432: one more run of processInput comes to
\* generateCSV with its table; the files written by earlier runs stay
StartReportRun ==
    /\ pc \in {"idle", "done"}
    /\ Len(csv_written) + Len(txt_written) < MaxInvocations
    /\ workflow_metrics' \in PersistTables
    /\ pc' = "csv"
    /\ UNCHANGED <<error, workflow_ids, fpr, df_sname, data, config,
                   metrics_sorted, metrics_sorted_run_order, arrows_1, arrows_2,
                   charts, csv_file, tree, extracted, txt_file, csv_written,
                   txt_written>>

\* the two extractors and process_json_file applied to every document
InitExtract ==
    /\ pc = "json"
    /\ workflow_ids = {}
    /\ fpr = [readable |-> TRUE, rows |-> <<>>]
    /\ data = <<>>
    /\ workflow_metrics = <<>>
    /\ config = NoConfig
    /\ tree \in Trees(MaxWidth)
    /\ Blank

NextExtract == Call_extract_workflow_ids \/ Call_extractWfId \/ process_json_file

SpecExtract == InitExtract /\ [][NextExtract]_vars

\* successive runs of the two scripts, each writing to the same id list and
\* the same CSV file, both absent at first
InitPersist ==
    /\ pc = "idle"
    /\ workflow_ids = {}
    /\ fpr = [readable |-> TRUE, rows |-> <<>>]
    /\ data = <<>>
    /\ workflow_metrics = <<>>
    /\ config = NoConfig
    /\ tree = NoDocument
    /\ Blank

NextPersist == StartIdListRun \/ process_json_file \/ StartReportRun \/ generateCSV

SpecPersist == InitPersist /\ [][NextPersist]_vars

----------------------------------------------------------------------------
(* Properties of parseJson, checked under SpecParse *)

IsAux(w) == w.workflow_name = PFO

\* the records of one run id that are not auxiliary, in input order
PrimaryRecords(rid) ==
    SelectSeq(data, LAMBDA w : w.workflow_run_id = rid /\ ~IsAux(w))

\* the emitted rows of one run id, in output order
RowsOf(rid) == SelectSeq(workflow_metrics, LAMBDA r : r.workflow_run_id = rid)

\* parseJson returned its table
Parsed == pc = "merge" /\ error = "none"

\* parseJson raised, and a provisionFileOut record whose wallclock_seconds is
\* present but no number is in the input
RaisedOnMalformed ==
    /\ pc = "crashed"
    /\ error = "TypeError"
    /\ \E i \in DOMAIN data :
          IsAux(data[i]) /\ data[i].wallclock_seconds = NotANumber

SetMax(S) == CHOOSE m \in S : \A x \in S : x <= m

\* the maximum wallclock_seconds over the provisionFileOut records of a run
\* id, an absent value counting as 0; 0 when there is no such record
AuxMaximum(rid) ==
    SetMax({0} \cup {IF data[i].wallclock_seconds = NoKey THEN 0
                     ELSE data[i].wallclock_seconds :
                     i \in {j \in DOMAIN data :
                               data[j].workflow_run_id = rid /\ IsAux(data[j])}})

\* C2: every emitted row carries, as max_provisionFileOut_wallclock_seconds,
\* the maximum wallclock_seconds over all provisionFileOut records of its run
\* id (0 without any), wherever those records stand in the input.
C2_AuxMaxIsMaximum ==
    Parsed =>
        \A i \in DOMAIN workflow_metrics :
            workflow_metrics[i].max_provisionFileOut_wallclock_seconds
                = AuxMaximum(workflow_metrics[i].workflow_run_id)

\* C2 witness: the run's primary record comes first, a record of another run
\* id follows, and the provisionFileOut record that sets the maximum is last.
C2_Witness ==
    /\ Parsed
    /\ Len(data) = 3
    /\ ~IsAux(data[1])
    /\ data[2].workflow_run_id # data[1].workflow_run_id
    /\ IsAux(data[3])
    /\ data[3].workflow_run_id = data[1].workflow_run_id
    /\ data[3].wallclock_seconds = 2
    /\ \E i \in DOMAIN workflow_metrics :
          /\ workflow_metrics[i].workflow_run_id = data[1].workflow_run_id
          /\ workflow_metrics[i].max_provisionFileOut_wallclock_seconds = 2

SameFields(row, w) ==
    /\ row.workflow_name = w.workflow_name
    /\ row.start_time = w.start_time
    /\ row.end_time = w.end_time
    /\ row.wallclock_seconds = w.wallclock_seconds

----------------------------------------------------------------------------
(* Properties of the orderings, checked under SpecGantt *)

\* a plotting function has run (to its end or to an exception)
Plotted == pc \in {"csv", "done", "crashed"}

\* frame holds every row of the table exactly once
IsPermutation(frame) ==
    /\ Len(frame) = Len(workflow_metrics)
    /\ \A i \in DOMAIN workflow_metrics : \E k \in DOMAIN frame : frame[k] = i

StartOf(i) == workflow_metrics[i].start_time

\* ascending by start_time, equal start_times in input order, unparsable
\* start_times after all the parsable ones
StableByStartTime(frame) ==
    \A a, b \in DOMAIN frame :
        a < b =>
            \/ StartOf(frame[b]) = Missing
            \/ /\ StartOf(frame[a]) # Missing
               /\ \/ StartOf(frame[a]) < StartOf(frame[b])
                  \/ StartOf(frame[a]) = StartOf(frame[b]) /\ frame[a] < frame[b]

\* C4 as stated: ganttPlot / gantt_plot order the runs by start_time without
\* dropping any, runs with equal start_time in input order, runs with an
\* unparsable start_time last.
C4_StableStartTimeOrder ==
    Plotted =>
        /\ error # "ValueError"
        /\ IsPermutation(metrics_sorted)
        /\ StableByStartTime(metrics_sorted)

\* what both functions do guarantee when the timestamps are converted: a
\* permutation in ascending start_time order with the unparsable ones last
C4_Support_AscendingOrder ==
    (Plotted /\ error # "ValueError") =>
        /\ IsPermutation(metrics_sorted)
        /\ \A a, b \in DOMAIN metrics_sorted :
              a < b =>
                 \/ StartOf(metrics_sorted[b]) = Missing
                 \/ /\ StartOf(metrics_sorted[a]) # Missing
                    /\ StartOf(metrics_sorted[a]) <= StartOf(metrics_sorted[b])

\* the index of a name in workflow_run_order (0-based), for a name in it
IndexIn(run_order, name) ==
    (CHOOSE i \in DOMAIN run_order : run_order[i] = name) - 1

Declared(name) ==
    \E i \in DOMAIN config.workflow_run_order : config.workflow_run_order[i] = name

NameOf(i) == workflow_metrics[i].workflow_name

\* no run dropped, declared names in non-decreasing index order, every
\* declared name before every undeclared one
DeclaredOrder(frame) ==
    /\ IsPermutation(frame)
    /\ \A a, b \in DOMAIN frame :
          a < b =>
             \/ ~Declared(NameOf(frame[b]))
             \/ /\ Declared(NameOf(frame[a]))
                /\ IndexIn(config.workflow_run_order, NameOf(frame[a]))
                     <= IndexIn(config.workflow_run_order, NameOf(frame[b]))

\* C5 as stated: with a dependency configuration the declared ordering is
\* produced, without failing: no run dropped, runs in non-decreasing order
\* of the index of their workflow_name in workflow_run_order, the runs whose
\* name is in workflow_run_order before all the others.
C5_DeclaredOrder ==
    (Plotted /\ config.supplied) =>
        /\ error # "NameError"
        /\ error = "none" => DeclaredOrder(metrics_sorted_run_order)

\* what gantt_plot of plot.py does guarantee when it runs to its end
C5_Support_gantt_plot ==
    (pc = "done" /\ config.supplied) => DeclaredOrder(metrics_sorted_run_order)

----------------------------------------------------------------------------
(* Properties of add_arrows / addArrows, checked under SpecArrows *)

ArrowsBuilt == pc \in {"add_arrows_done", "addArrows_done"}

\* the configuration declares the pair (up, down)
DeclaredPair(up, down) ==
    \E k \in DOMAIN config.dependencies :
        /\ config.dependencies[k][1] = up
        /\ \E m \in DOMAIN config.dependencies[k][2] :
              config.dependencies[k][2][m] = down

RunsNamed(name) == {i \in DOMAIN workflow_metrics : NameOf(i) = name}

ArrowsBetween(u, d) ==
    {k \in DOMAIN arrows_1 : arrows_1[k].from = u /\ arrows_1[k].to = d}

ArrowsOfPair(up, down) ==
    {k \in DOMAIN arrows_1 :
        NameOf(arrows_1[k].from) = up /\ NameOf(arrows_1[k].to) = down}

StepNames == {"align", "call", "qc"}

\* C6: for every configuration, cyclic and self-referential ones included,
\* both functions return, and for every declared pair (up, down) they emit
\* exactly one arrow u.end_time -> d.start_time for every run u named up and
\* every run d named down, (#up runs) x (#down runs) arrows for the pair, and
\* no arrow for a pair that is not declared.
C6_CrossProductArrows ==
    /\ pc = "arrows" => (ENABLED Call_add_arrows /\ ENABLED Call_addArrows)
    /\ ArrowsBuilt =>
          /\ \A u, d \in DOMAIN workflow_metrics :
                Cardinality(ArrowsBetween(u, d))
                    = IF DeclaredPair(NameOf(u), NameOf(d)) THEN 1 ELSE 0
          /\ \A k \in DOMAIN arrows_1 :
                arrows_1[k].x = << workflow_metrics[arrows_1[k].from].end_time,
                                   workflow_metrics[arrows_1[k].to].start_time >>
          /\ \A up, down \in StepNames :
                DeclaredPair(up, down) =>
                    Cardinality(ArrowsOfPair(up, down))
                        = Cardinality(RunsNamed(up)) * Cardinality(RunsNamed(down))

\* C6 witness: two upstream and three downstream runs of a declared pair,
\* six arrows for it, under a cyclic configuration.
C6_Witness ==
    /\ ArrowsBuilt
    /\ DeclaredPair("align", "call")
    /\ DeclaredPair("call", "align")
    /\ Cardinality(RunsNamed("align")) = 2
    /\ Cardinality(RunsNamed("call")) = 3
    /\ Cardinality(ArrowsOfPair("align", "call")) = 6

----------------------------------------------------------------------------
(* Properties of queryFpr, checked under SpecFpr *)

FprQueried == pc = "mongo"

\* the (sample_name, workflow_run_id) pairs of the report rows whose
\* 'Workflow Run SWID' is requested
RequestedPairs ==
    {[sample_name |-> fpr.rows[i].root_sample_name,
      workflow_run_id |-> fpr.rows[i].swid] :
        i \in {j \in DOMAIN fpr.rows : fpr.rows[j].swid \in workflow_ids}}

\* C7: for a readable report queryFpr returns, without error, exactly the
\* distinct (sample_name, workflow_run_id) pairs of the rows whose SWID is
\* requested, each pair once.
C7_DistinctRequestedPairs ==
    (FprQueried /\ fpr.readable) =>
        /\ error = "none"
        /\ ~df_sname.none
        /\ {df_sname.rows[k] : k \in DOMAIN df_sname.rows} = RequestedPairs
        /\ \A k, m \in DOMAIN df_sname.rows :
              df_sname.rows[k] = df_sname.rows[m] => k = m

\* C7 witness: a report with a repeated row of a requested id and a row of an
\* id that is not requested, and a requested id without any row; one pair.
C7_Witness ==
    /\ FprQueried
    /\ fpr.readable
    /\ \E i, j \in DOMAIN fpr.rows :
          i # j /\ fpr.rows[i] = fpr.rows[j] /\ fpr.rows[i].swid \in workflow_ids
    /\ \E i \in DOMAIN fpr.rows : fpr.rows[i].swid \notin workflow_ids
    /\ \E id \in workflow_ids : \A i \in DOMAIN fpr.rows : fpr.rows[i].swid # id
    /\ Len(df_sname.rows) = 1

----------------------------------------------------------------------------
(* Properties of processInput, checked under Spec *)

\* the rows rendered in some chart
Rendered ==
    UNION {{charts[n].rows[k] : k \in DOMAIN charts[n].rows} : n \in DOMAIN charts}

\* processInput ran to its end and wrote the CSV file
Persisted == pc = "done" /\ csv_file.exists

\* C8 as stated: a run without a sample name is in the persisted table, with
\* sample_name unset, and among the rendered runs, whatever the sample names
\* of the other runs.
C8_UnsetSampleKept ==
    Persisted =>
        \A i \in DOMAIN workflow_metrics :
            workflow_metrics[i].sample_name = NaN =>
                /\ i \in DOMAIN csv_file.rows
                /\ csv_file.rows[i].sample_name = NaN
                /\ csv_file.rows[i].workflow_run_id = workflow_metrics[i].workflow_run_id
                /\ i \in Rendered

\* the part of C8 the code does guarantee: the run is in the persisted table
C8_Support_Persisted ==
    Persisted =>
        \A i \in DOMAIN workflow_metrics :
            workflow_metrics[i].sample_name = NaN =>
                /\ i \in DOMAIN csv_file.rows
                /\ csv_file.rows[i].sample_name = NaN

\* the rows parseJson emits: one per record that is not provisionFileOut
PrimaryCount == Cardinality({i \in DOMAIN data : ~IsAux(data[i])})

\* C9 as stated: the persisted table holds exactly one row per run, whatever
\* the resolver returned for its run id (no sample name, one, several).
C9_OneRowPerRun ==
    Persisted => Len(csv_file.rows) = PrimaryCount

\* what the persisted table does hold: a row per run and resolved sample
\* name, one row for a run without any
SamplesOf(rid) ==
    {p.sample_name : p \in {q \in {df_sname.rows[k] : k \in DOMAIN df_sname.rows} :
                               q.workflow_run_id = rid}}

C9_Support_RowPerRunAndSample ==
    Persisted =>
        \A rid \in RunIds :
            Cardinality({i \in DOMAIN csv_file.rows :
                            csv_file.rows[i].workflow_run_id = rid})
              = Cardinality({i \in DOMAIN data :
                                ~IsAux(data[i]) /\ data[i].workflow_run_id = rid})
                * (IF SamplesOf(rid) = {} THEN 1 ELSE Cardinality(SamplesOf(rid)))

\* queryFpr could not read the report and returned None
ResolutionFailed == pc \notin {"start", "fpr"} /\ ~fpr.readable

\* C10 as stated: when identity resolution fails the aggregated runs are
\* still rendered and persisted, with sample_name unset.
C10_ProceedsWithoutSamples ==
    (pc = "done" /\ ResolutionFailed /\ workflow_metrics # <<>>) =>
        /\ csv_file.exists
        /\ \A i \in DOMAIN workflow_metrics : i \in Rendered

\* what the code does instead: when identity resolution fails, processInput
\* still queries the store and aggregates, but renders and persists nothing
C10_Support_NoOutput ==
    ResolutionFailed =>
        /\ df_sname.none
        /\ pc \in {"mongo", "parse", "merge", "done", "crashed"}
        /\ charts = <<>>
        /\ ~csv_file.exists

\* that case happens: the report was unreadable, runs were aggregated,
\* processInput returned, and nothing was rendered or persisted
C10_Support_Reached ==
    /\ pc = "done"
    /\ ResolutionFailed
    /\ error = "none"
    /\ workflow_metrics # <<>>
    /\ charts = <<>>
    /\ ~csv_file.exists

----------------------------------------------------------------------------
(* Empty results, checked under Spec *)

\* no identifier was extracted from the input file
ZeroIdentifiers == pc = "done" /\ workflow_ids = {}

\* the store was queried for the identifiers and returned no run
ZeroRuns ==
    /\ workflow_ids # {}
    /\ data = <<>>
    /\ pc \in {"parse", "merge", "plot", "csv", "done"}

\* C11 as stated: an empty result at any stage of processInput (zero
\* identifiers extracted, or zero runs returned for the identifiers) ends the
\* invocation without writing any output file: no chart and no CSV.
C11_EmptyResultWritesNothing ==
    (ZeroIdentifiers \/ ZeroRuns) => (charts = <<>> /\ ~csv_file.exists)

\* the half of it that holds: zero identifiers end processInput at once,
\* before the report or the store is read, with no output and no error
C11_Support_ZeroIdentifiers ==
    ZeroIdentifiers =>
        /\ error = "none"
        /\ df_sname = NoFrame
        /\ data = <<>>
        /\ charts = <<>>
        /\ ~csv_file.exists

\* what zero runs lead to instead: an empty table goes through the merge
\* and ganttPlot, and generateCSV writes a file that holds the header only
C11_Support_HeaderOnlyCsv ==
    /\ pc = "done"
    /\ ZeroRuns
    /\ error = "none"
    /\ charts = <<>>
    /\ csv_file = [exists |-> TRUE, rows |-> <<>>]

----------------------------------------------------------------------------
(* Malformed wallclock_seconds, checked under SpecParse *)

\* a wallclock_seconds that is absent, null or no number, counted as zero
WallclockOrZero(w) ==
    IF w.wallclock_seconds \in {NoKey, NotANumber} THEN 0 ELSE w.wallclock_seconds

\* the auxiliary maximum of a run id when every such value counts as zero
TolerantAuxMaximum(rid) ==
    SetMax({0} \cup {WallclockOrZero(data[i]) :
                     i \in {j \in DOMAIN data :
                               data[j].workflow_run_id = rid /\ IsAux(data[j])}})

\* C13 as stated: for every raw record collection parseJson does not fail; a
\* record whose wallclock_seconds is absent, null or not a number contributes
\* zero to its run's auxiliary maximum, and the other fields of the records
\* and all other runs are still extracted.
C13_MalformedWallclockCountsZero ==
    pc # "parse" =>
        /\ Parsed
        /\ \A rid \in RunIds :
              /\ DOMAIN RowsOf(rid) = DOMAIN PrimaryRecords(rid)
              /\ \A k \in DOMAIN RowsOf(rid) :
                    /\ SameFields(RowsOf(rid)[k], PrimaryRecords(rid)[k])
                    /\ RowsOf(rid)[k].max_provisionFileOut_wallclock_seconds
                          = TolerantAuxMaximum(rid)

\* the part that holds: an absent wallclock_seconds alone never makes
\* parseJson fail and counts as zero
C13_Support_AbsentCountsZero ==
    (pc # "parse" /\ \A i \in DOMAIN data : data[i].wallclock_seconds # NotANumber) =>
        /\ Parsed
        /\ \A i \in DOMAIN workflow_metrics :
              workflow_metrics[i].max_provisionFileOut_wallclock_seconds
                  = TolerantAuxMaximum(workflow_metrics[i].workflow_run_id)

\* what a null does instead: parseJson raises and no row is returned, not
\* even the rows of the other run id
C13_Support_NullRaises ==
    /\ RaisedOnMalformed
    /\ workflow_metrics = <<>>
    /\ \E i, j \in DOMAIN data :
          /\ IsAux(data[i]) /\ data[i].wallclock_seconds = NotANumber
          /\ ~IsAux(data[j]) /\ data[j].workflow_run_id # data[i].workflow_run_id

----------------------------------------------------------------------------
(* Permutations of the input of parseJson, checked under SpecParse *)

\* the records in the order a permutation puts them
Permuted(records, p) == [i \in DOMAIN records |-> records[p[i]]]

\* every order the records can be put in
Reorderings(records) ==
    {Permuted(records, p) : p \in Permutations(DOMAIN records)}

\* how often a row occurs in a table
Occurrences(table, row) == Cardinality({i \in DOMAIN table : table[i] = row})

SameMultiset(a, b) ==
    /\ Len(a) = Len(b)
    /\ \A i \in DOMAIN a : Occurrences(a, a[i]) = Occurrences(b, a[i])

\* the positions in data of the records that are not provisionFileOut
PrimaryPositions == {i \in DOMAIN data : ~IsAux(data[i])}

\* where a run id first appears in data
FirstAppearance(rid) ==
    CHOOSE i \in DOMAIN data :
        /\ data[i].workflow_run_id = rid
        /\ \A j \in DOMAIN data : data[j].workflow_run_id = rid => i <= j

\* the order the claim gives to the rows of two primary records: by the
\* first appearance of their run ids, then by input order
RowBefore(i, j) ==
    \/ FirstAppearance(data[i].workflow_run_id)
          < FirstAppearance(data[j].workflow_run_id)
    \/ data[i].workflow_run_id = data[j].workflow_run_id /\ i < j

\* the position in data of the record that the k-th row comes from
RowOrigin(k) ==
    CHOOSE i \in PrimaryPositions :
        Cardinality({j \in PrimaryPositions : RowBefore(j, i)}) = k - 1

\* C15: the multiset of rows emitted by parseJson (called with no table) is
\* the same for every permutation of the input records, and so is whether it
\* raises; the order of the rows follows the first appearance of each run id
\* and the input order of its records that are not provisionFileOut.
C15_RowsInvariantUnderPermutation ==
    pc # "parse" =>
        /\ \A records \in Reorderings(data) :
              parseJsonRaises(records) <=> (pc = "crashed")
        /\ Parsed =>
              \A table \in {parseJson(records, <<>>) : records \in Reorderings(data)} :
                  SameMultiset(table, workflow_metrics)
        /\ Parsed =>
              /\ Len(workflow_metrics) = Cardinality(PrimaryPositions)
              /\ \A k \in DOMAIN workflow_metrics :
                    /\ SameFields(workflow_metrics[k], data[RowOrigin(k)])
                    /\ workflow_metrics[k].workflow_run_id
                          = data[RowOrigin(k)].workflow_run_id

\* C15 witness: three records, the provisionFileOut record that sets a run's
\* maximum after that run's primary record, a primary record of another run
\* id, and a permutation of them that gives the same rows in another order.
C15_Witness ==
    /\ Parsed
    /\ Len(data) = 3
    /\ Len(workflow_metrics) = 2
    /\ workflow_metrics[1].workflow_run_id # workflow_metrics[2].workflow_run_id
    /\ \E i \in DOMAIN workflow_metrics :
          workflow_metrics[i].max_provisionFileOut_wallclock_seconds > 0
    /\ \E table \in {parseJson(records, <<>>) : records \in Reorderings(data)} :
          /\ table # workflow_metrics
          /\ SameMultiset(table, workflow_metrics)

----------------------------------------------------------------------------
(* The identifier extractors, checked under SpecExtract *)

\* the child a step of a path selects: the value of the i-th item of a
\* dict, the i-th element of a list
Child(node, i) == IF node.kind = "dict" THEN node.val[i].value ELSE node.val[i]

\* the number of containers on the longest path from a node down
RECURSIVE Height(_)
Height(node) ==
    IF node.kind = "scalar" THEN 0
    ELSE 1 + SetMax({0} \cup {Height(Child(node, i)) : i \in DOMAIN node.val})

\* the path leads from the node to a value stored under 'workflow_id', and
\* passes through the value of no other 'workflow_id' key
RECURSIVE ReachesId(_, _)
ReachesId(node, path) ==
    /\ node.kind # "scalar"
    /\ Head(path) \in DOMAIN node.val
    /\ LET atIdKey == node.kind = "dict" /\ node.val[Head(path)].key = IdKey
       IN  IF Len(path) = 1 THEN atIdKey
           ELSE ~atIdKey /\ ReachesId(Child(node, Head(path)), Tail(path))

RECURSIVE ValueAt(_, _)
ValueAt(node, path) ==
    IF path = <<>> THEN node ELSE ValueAt(Child(node, Head(path)), Tail(path))

\* the paths of the document that lead to such a value
IdPaths ==
    {p \in UNION {[1..k -> 1..MaxWidth] : k \in 1..Height(tree)} : ReachesId(tree, p)}

\* document order: at the first step where two paths differ
ComesBefore(p, q) ==
    \E k \in DOMAIN p \cap DOMAIN q :
        /\ p[k] < q[k]
        /\ \A j \in 1..(k - 1) : p[j] = q[j]

\* the values stored under 'workflow_id' on those paths, in document order
StoredIds ==
    LET paths == CHOOSE s \in [1..Cardinality(IdPaths) -> IdPaths] :
                     \A i, j \in DOMAIN s : i < j => ComesBefore(s[i], s[j])
    IN  [i \in DOMAIN paths |-> ValueAt(tree, paths[i])]

Values(list) == {list[i] : i \in DOMAIN list}

NoDuplicates(list) == \A i, j \in DOMAIN list : list[i] = list[j] => i = j

\* C14 as stated: for every document extract_workflow_ids returns exactly
\* the values stored under a key 'workflow_id' that are reachable from the
\* root without passing through the value of another such key, the empty
\* list when there is none; and extractWfId does not fail and returns the
\* same values with duplicates removed.
C14_ExtractorsReturnStoredIds ==
    /\ pc = "extract_workflow_ids_done" => extracted = StoredIds
    /\ pc \in {"extractWfId_done", "crashed"} =>
          /\ error = "none"
          /\ Values(extracted) = Values(StoredIds)
          /\ NoDuplicates(extracted)

\* the part that holds: extract_workflow_ids does as claimed, and extractWfId
\* does when it returns
C14_Support_WhenReturned ==
    /\ pc \notin {"json", "done"} => Values(extract_workflow_ids(tree)) = Values(StoredIds)
    /\ pc = "extract_workflow_ids_done" => extracted = StoredIds
    /\ pc = "extractWfId_done" =>
          /\ Values(extracted) = Values(StoredIds)
          /\ NoDuplicates(extracted)
    /\ pc = "crashed" <=> (error = "TypeError")
    /\ pc = "crashed" => \E i \in DOMAIN StoredIds : StoredIds[i].kind # "scalar"

\* what extractWfId does on a matched value that is a dict or a list:
\* extract_workflow_ids would return it as-is, extractWfId raises TypeError
C14_Support_UnhashableRaises ==
    /\ pc = "crashed"
    /\ error = "TypeError"
    /\ extract_workflow_ids(tree) # <<>>
    /\ \E i \in DOMAIN StoredIds : StoredIds[i].kind = "dict"

\* two cases that do happen: a matched value that holds a
\* 'workflow_id' key itself is returned whole and not scanned, and
\* extractWfId drops a duplicate
C14_Support_NotScanned ==
    /\ pc = "extract_workflow_ids_done"
    /\ Len(extracted) = 1
    /\ extracted[1].kind = "dict"
    /\ extract_workflow_ids(extracted[1]) # <<>>

C14_Support_DuplicateDropped ==
    /\ pc = "extractWfId_done"
    /\ Len(StoredIds) = 2
    /\ Len(extracted) = 1

\* C11, for process_json_file: a document without identifiers ends the run
\* with no id list written
C11_Support_process_json_file ==
    (pc = "done" /\ extract_workflow_ids(tree) = <<>>) =>
        /\ ~txt_file.exists
        /\ error = "none"

----------------------------------------------------------------------------
(* Successive writes of the same destination, checked under SpecPersist *)

\* the rows of every write, in invocation order
RECURSIVE RowsInOrder(_)
RowsInOrder(written) ==
    IF written = <<>> THEN <<>>
    ELSE written[1] \o RowsInOrder(Tail(written))

\* the header is a line of the id list once, and that line is the first
HeaderOnceAndFirst ==
    {i \in DOMAIN txt_file.lines : txt_file.lines[i] = Header} = {1}

\* C12 as stated: after any sequence of persisting invocations against the
\* same destination, absent at first, the destination holds the header once,
\* as its first line, followed by the rows of every invocation in
\* invocation order.  (generateCSV always writes with header=True; rows are
\* the lines after the header.)
C12_AppendAcrossInvocations ==
    /\ txt_file.exists <=> txt_written # <<>>
    /\ txt_file.exists =>
          /\ HeaderOnceAndFirst
          /\ txt_file.lines = << Header >> \o RowsInOrder(txt_written)
    /\ csv_file.exists <=> csv_written # <<>>
    /\ csv_file.exists => csv_file.rows = RowsInOrder(csv_written)

\* C12 amended: that holds of the id list written by process_json_file,
\* which creates the file with the header when it is absent and otherwise
\* appends without a header and without removing earlier lines.  The CSV
\* file written by generateCSV is rewritten by every invocation: it holds
\* the header followed by the rows of the last invocation only.
C12_IdListAppendsCsvIsRewritten ==
    /\ txt_file.exists <=> txt_written # <<>>
    /\ txt_file.exists =>
          /\ HeaderOnceAndFirst
          /\ txt_file.lines = << Header >> \o RowsInOrder(txt_written)
    /\ csv_file.exists <=> csv_written # <<>>
    /\ csv_file.exists => csv_file.rows = csv_written[Len(csv_written)]

\* C12 witness: the id list was written twice and the CSV file was written
\* after an earlier write that had put rows into it.
C12_Witness ==
    /\ pc = "done"
    /\ Len(txt_written) = 2
    /\ Len(txt_file.lines) > 1 + Len(txt_written[2])
    /\ \E k \in DOMAIN csv_written :
          /\ k < Len(csv_written)
          /\ csv_written[k] # <<>>
          /\ csv_written[k] # csv_written[Len(csv_written)]
    /\ csv_file.rows # RowsInOrder(csv_written)

====
